---- MODULE Spec2Model ----
(***************************************************************************)
(* Model of res/res_sip_refer.c: the handling of one inbound REFER, from   *)
(* the request handler through the attended / blind executors, the REFER   *)
(* progress monitor (struct refer_progress), the serialized notification   *)
(* callback, the progress frame hook and the subscription state callback.  *)
(*                                                                         *)
(* Threads of control:                                                     *)
(*   "req"  the requesting session's thread, in refer_incoming_refer_request*)
(*   "tgt"  the second session's serializer, running refer_attended        *)
(*   "ser"  the progress monitor's own serializer (progress->serializer)   *)
(*   "chan" the thread writing frames to the transferred-to leg (the hook) *)
(*   "cb"   the PJSIP thread running refer_progress_on_evsub_state for a   *)
(*          remotely terminated subscription; it enters with the dialog    *)
(*          lock held                                                      *)
(* Allocation failure of a notification (ao2_alloc returning NULL) is not  *)
(* modelled; failure of refer_progress_alloc and of ast_sip_push_task is.  *)
(***************************************************************************)
EXTENDS Integers, Sequences, FiniteSets, TLC

VARIABLES
    faults,         \* environment: failures of pushes, sends and allocations still to come
    reqPc,          \* position of the requesting thread in refer_incoming_request
    hdr,            \* the request header most recently looked up, and what was found
    response,       \* the handler's local `response`
    responses,      \* final responses sent with pjsip_dlg_respond / pjsip_dlg_send_response
    accepted,       \* pjsip_xfer_accept (202) has been sent
    progress,       \* the handler's `progress` pointer is non-NULL
    sub,            \* progress->sub is non-NULL
    subclass,       \* progress->subclass ("none" is the zero of ao2_alloc)
    framehook,      \* progress->framehook and the state of the hook on the leg
    refs,           \* ao2 reference count of the progress monitor
    held,           \* references each kind of holder has taken and not yet released
    destroyed,      \* refer_progress_destroy has run
    mod_data,       \* pjsip_evsub mod_data[refer_progress_module.id] is non-NULL
    evsub_state,    \* state of the subscription inside PJSIP
    dlg_lock,       \* owner of the dialog lock
    serializer,     \* task queue of progress->serializer
    npc,            \* per executing thread: position inside refer_progress_notify
    notification,   \* per executing thread: the notification being processed
    nsub,           \* per executing thread: the local `sub` read at line 106
    tgtPc,          \* the task (refer_attended, invite_replaces) on other_session->serializer
    calls,          \* calls made to the routing and bridging collaborators
    defer_terminate,\* ast_sip_session_defer_termination(session) was called
    cbPc,           \* position of the PJSIP thread in refer_progress_on_evsub_state
    sent,           \* NOTIFY requests sent on the subscription, in order
    nframes,        \* frames the hook has reacted to
    frame,          \* the frame most recently handed to the hook
    transfer_result,\* what the bridging core returned for the transfer attempt
    cb_from_send,   \* what the state callback run by a terminating NOTIFY send did
    alloc,          \* how refer_progress_alloc ended ("none": not called yet)
    invite,         \* struct invite_replaces: the channel and bridge the task fetched
    chan_state,     \* state of the channel of the session the request came in on
    session_channel,\* session->channel is non-NULL
    verify,         \* what pjsip_replaces_verify_request and the session lookup found
    transfer_context,\* TRANSFER_CONTEXT as read at 536 / 576 ("none": not read, or done with)
    context         \* the local `context` / refer.context, until the callback has used it

vars == <<faults, reqPc, hdr, response, responses, accepted, progress, sub,
          subclass, framehook, refs, held, destroyed, mod_data, evsub_state,
          dlg_lock, serializer, npc, notification, nsub, tgtPc, calls,
          defer_terminate, cbPc, sent, nframes, frame, transfer_result,
          cb_from_send, alloc, invite, chan_state, session_channel, verify,
          transfer_context, context>>

\* Frames in one behaviour that the hook reacts to (a frame it ignores leaves the
\* state as it is).
MaxFrames == 2

\* Failures the environment injects in one behaviour.
MaxFaults == 1

Executors == {"req", "tgt", "ser"}

Holders == {"chain", "sub", "hook", "task", "cb", "notif"}

ACTIVE == "ACTIVE"

TERMINATED == "TERMINATED"

NoNotification == [response |-> 0, state |-> "NONE"]

\* Values of the Refer-To header as the handler distinguishes them.
ReferToValues == {"missing", "unparseable", "badscheme", "sip"}

\* Refer-Sub header: absent, "true", or any other value.
ReferSubValues == {"absent", "true", "false"}

\* Replaces parameter of the target URI and what its dialog lookup finds.
ReplacesValues == {"none", "malformed", "local", "local_nosession", "remote"}

\* The TRANSFER_CONTEXT channel variable: empty (or unset), or naming a context.
TransferContextValues == {"", "override"}

TransferResults == {"INVALID", "NOT_PERMITTED", "FAIL", "SUCCESS"}

ControlSubclasses == {"RING", "RINGING", "ANSWER", "BUSY", "CONGESTION",
                      "PROGRESS", "PROCEEDING", "HOLD"}

\* A frame handed to the hook: the hook event, the frame type, the subclass.
Frames == {[event |-> "READ", frametype |-> "VOICE", sc |-> "none"],
           [event |-> "WRITE", frametype |-> "NULL", sc |-> "none"],
           [event |-> "WRITE", frametype |-> "DTMF", sc |-> "none"],
           [event |-> "WRITE", frametype |-> "VOICE", sc |-> "none"]}
          \cup {[event |-> "WRITE", frametype |-> "CONTROL", sc |-> c] :
                    c \in ControlSubclasses}

NoFrame == [event |-> "NONE", frametype |-> "NONE", sc |-> "none"]

\* struct invite_replaces before the task has filled it in.
NoInvite == [channel |-> FALSE, bridge |-> FALSE]

\* Before pjsip_replaces_verify_request has been called.
NoVerify == [verdict |-> "none", code |-> 0]

inviteVars == <<invite, chan_state, session_channel, verify>>

ctxVars == <<transfer_context, context>>

\* The state when the request (REFER or INVITE) arrives, with f failures for the environment to inject.
InitWith(f) ==
    /\ faults = f
    /\ reqPc = "recv"
    /\ hdr = [name |-> "none", value |-> "none"]
    /\ response = 0
    /\ responses = <<>>
    /\ accepted = FALSE
    /\ progress = FALSE
    /\ sub = FALSE
    /\ subclass = "none"
    /\ framehook = "unattached"
    /\ refs = 0
    /\ held = [h \in Holders |-> 0]
    /\ destroyed = FALSE
    /\ mod_data = FALSE
    /\ evsub_state = "NULL"
    /\ dlg_lock = "none"
    /\ serializer = <<>>
    /\ npc = [e \in Executors |-> "idle"]
    /\ notification = [e \in Executors |-> NoNotification]
    /\ nsub = [e \in Executors |-> FALSE]
    /\ tgtPc = "idle"
    /\ calls = <<>>
    /\ defer_terminate = FALSE
    /\ cbPc = "idle"
    /\ sent = <<>>
    /\ nframes = 0
    /\ frame = NoFrame
    /\ transfer_result = "none"
    /\ cb_from_send = "none"
    /\ alloc = "none"
    /\ invite = NoInvite
    /\ chan_state = "DOWN"
    /\ session_channel = TRUE
    /\ verify = NoVerify
    /\ transfer_context = "none"
    /\ context = "none"

Init == InitWith(MaxFaults)

(***************************************************************************)
(* Reference counting (ao2_ref +1 / ao2_cleanup) of the progress monitor.  *)
(***************************************************************************)

\* ao2_ref(progress, +1) on behalf of holder h.
ao2_ref(h) ==
    /\ refs' = refs + 1
    /\ held' = [held EXCEPT ![h] = @ + 1]
    /\ UNCHANGED destroyed

\* ao2_cleanup(progress) by holder h; the last release runs refer_progress_destroy.
ao2_cleanup(h) ==
    /\ refs' = refs - 1
    /\ held' = [held EXCEPT ![h] = @ - 1]
    /\ destroyed' = (destroyed \/ refs - 1 = 0)

\* Two references taken in one step, for holders a and b.
ao2_ref2(a, b) ==
    /\ refs' = refs + 2
    /\ held' = [held EXCEPT ![a] = @ + 1, ![b] = @ + 1]
    /\ UNCHANGED destroyed

\* One reference taken for holder a and one released by holder b in one step.
ao2_ref_cleanup(a, b) ==
    /\ refs' = refs
    /\ held' = [held EXCEPT ![a] = @ + 1, ![b] = @ - 1]
    /\ UNCHANGED destroyed

\* ast_sip_push_task: the environment may refuse the task.
PushResults == IF faults > 0 THEN BOOLEAN ELSE {TRUE}

\* pjsip_xfer_notify: building the NOTIFY may fail.
SendResults == IF faults > 0 THEN BOOLEAN ELSE {TRUE}

\* The environment's remaining failures after an operation that went ok or failed.
Spend(ok) == faults' = IF ok THEN faults ELSE faults - 1

\* A variant of the mapping without a case for "not permitted", which then falls
\* in with the invalid requests.
TransferResponseNoForbidden(result) ==
    CASE result = "INVALID" -> 400
      [] result = "NOT_PERMITTED" -> 400
      [] result = "FAIL" -> 500
      [] result = "SUCCESS" -> 200

\* The response code the executors map a bridging result to.
TransferResponse(result) ==
    CASE result = "INVALID" -> 400
      [] result = "NOT_PERMITTED" -> 403
      [] result = "FAIL" -> 500
      [] result = "SUCCESS" -> 200

refVars == <<refs, held, destroyed>>

notifyVars == <<npc, notification, nsub>>

evsubVars == <<mod_data, evsub_state, dlg_lock>>

hookVars == <<subclass, framehook, nframes>>

\* Thread e enters refer_progress_notify with a notification (response r, state st).
CallNotify(e, r, st) ==
    /\ npc' = [npc EXCEPT ![e] = "check"]
    /\ notification' = [notification EXCEPT ![e] = [response |-> r, state |-> st]]
    /\ UNCHANGED nsub

(***************************************************************************)
(* refer_incoming_refer_request, on the requesting session's thread.       *)
(***************************************************************************)

\* A variant of the target check that lets a URI of any scheme through.
AnySchemeTarget(rt) == rt \in {"sip", "badscheme"}

\* Lines 735-753: the Refer-To header is required (735) and must parse to a URI
\* (744) of a supported scheme (748); "sip" stands for sip and sips alike.
SupportedTarget(rt) == rt = "sip"

\* Lines 735-753: a request whose target is not usable is answered 400 at once.
refer_incoming_refer_request_target ==
    /\ reqPc = "recv"
    /\ \E rt \in ReferToValues :
          /\ hdr' = [name |-> "Refer-To", value |-> rt]
          /\ IF SupportedTarget(rt)
                THEN reqPc' = "alloc" /\ UNCHANGED responses
                ELSE reqPc' = "done" /\ responses' = Append(responses, 400)
    /\ UNCHANGED <<faults, response, accepted, progress, sub, hookVars, refVars,
                   evsubVars, serializer, notifyVars, tgtPc, calls,
                   defer_terminate, cbPc, sent, cb_from_send, frame,
                   transfer_result, alloc, inviteVars, ctxVars>>

\* What can go wrong in refer_progress_alloc: ao2_alloc, ast_sip_create_serializer,
\* pjsip_xfer_create_uas.
AllocOutcomes ==
    IF faults > 0
       THEN {"ok", "no_memory", "no_serializer", "no_subscription"}
       ELSE {"ok"}

\* A variant of the handler's reaction to a failed refer_progress_alloc that goes
\* on with the transfer, unmonitored, instead of answering 500.
AllocErrorFallThrough(outcome) ==
    /\ destroyed' = (outcome # "no_memory")
    /\ reqPc' = "classify"
    /\ UNCHANGED <<responses, progress, sub, refs, held, mod_data, evsub_state,
                   accepted, sent>>

\* Lines 273-293 and 317-320 with 756-761: the allocation fails before the
\* subscription is associated, accepted or notified; the half-made monitor is
\* destroyed (unless it was never allocated) and the handler answers 500 and
\* returns.
AllocError(outcome) ==
    /\ responses' = Append(responses, 500)
    /\ destroyed' = (outcome # "no_memory")
    /\ reqPc' = "done"
    /\ UNCHANGED <<progress, sub, refs, held, mod_data, evsub_state, accepted,
                   sent>>

\* A variant of the successful allocation that gives the request up with 500 when
\* the initial NOTIFY cannot be built.
AllocOkOrGiveUp(ok) ==
    /\ progress' = TRUE
    /\ sub' = TRUE
    /\ refs' = 2
    /\ held' = [held EXCEPT !["chain"] = 1, !["sub"] = 1]
    /\ mod_data' = TRUE
    /\ evsub_state' = ACTIVE
    /\ accepted' = TRUE
    /\ sent' = IF ok THEN Append(sent, [response |-> 100, state |-> ACTIVE]) ELSE sent
    /\ reqPc' = IF ok THEN "classify" ELSE "done"
    /\ responses' = IF ok THEN responses ELSE Append(responses, 500)
    /\ UNCHANGED destroyed

\* A variant of the successful allocation that leaves the initial NOTIFY out.
AllocOkWithoutInitial(ok) ==
    /\ progress' = TRUE
    /\ sub' = TRUE
    /\ refs' = 2
    /\ held' = [held EXCEPT !["chain"] = 1, !["sub"] = 1]
    /\ mod_data' = TRUE
    /\ evsub_state' = ACTIVE
    /\ accepted' = TRUE
    /\ reqPc' = "classify"
    /\ UNCHANGED <<destroyed, responses, sent>>

\* Lines 273-315: the monitor is allocated (one reference for the caller), its
\* subscription created and associated (a second reference, 295-296), the REFER
\* accepted with 202 and the initial 100 NOTIFY sent if it can be built; the
\* function returns 0 either way.
AllocOk(ok) ==
    /\ progress' = TRUE
    /\ sub' = TRUE
    /\ refs' = 2
    /\ held' = [held EXCEPT !["chain"] = 1, !["sub"] = 1]
    /\ mod_data' = TRUE
    /\ evsub_state' = ACTIVE
    /\ accepted' = TRUE
    /\ sent' = IF ok THEN Append(sent, [response |-> 100, state |-> ACTIVE]) ELSE sent
    /\ reqPc' = "classify"
    /\ UNCHANGED <<destroyed, responses>>

\* Lines 755-761 with refer_progress_alloc (257-321).
refer_progress_alloc ==
    /\ reqPc = "alloc"
    /\ \E rs \in ReferSubValues, outcome \in AllocOutcomes, ok \in SendResults :
          /\ Spend(rs = "false" \/ (outcome = "ok" /\ ok))
          /\ hdr' = [name |-> "Refer-Sub", value |-> rs]
          /\ alloc' = IF rs = "false" THEN "optout" ELSE outcome
          /\ IF rs = "false"
                THEN /\ reqPc' = "classify"
                     /\ UNCHANGED <<progress, sub, refVars, mod_data, evsub_state,
                                    accepted, sent, responses>>
                ELSE IF outcome = "ok"
                THEN AllocOk(ok)
                ELSE AllocError(outcome)
    /\ UNCHANGED <<response, hookVars, dlg_lock, serializer, notifyVars, tgtPc,
                   calls, defer_terminate, cbPc, cb_from_send, frame,
                   transfer_result, inviteVars, ctxVars>>

\* A variant of the context choice that always takes the endpoint's context.
EndpointContextOnly(tc) == "endpoint"

\* Lines 576-583 (and 536-541): the context the target is looked up in is the
\* TRANSFER_CONTEXT channel variable, or the endpoint's configured context when
\* that is empty.
TransferContext(tc) == IF tc = "" THEN "endpoint" ELSE tc

\* A variant of the local attended branch that performs the transfer where it
\* stands, on the requesting thread, instead of handing it to the other session.
AttendedInline(pushed) ==
    /\ calls' = Append(calls, [op |-> "attended", thread |-> "req"])
    /\ tgtPc' = "done"
    /\ response' = 200
    /\ UNCHANGED refVars

\* Lines 518-534: the Replaces dialog is one of ours. A refer_attended task is
\* allocated (taking a reference on the monitor, 363) and pushed to the other
\* session's serializer; 200 if the push is accepted, 500 if not.
AttendedLocal(pushed) ==
    /\ IF progress THEN ao2_ref("task") ELSE UNCHANGED refVars
    /\ tgtPc' = IF pushed THEN "queued" ELSE "done"
    /\ response' = IF pushed THEN 200 ELSE 500
    /\ UNCHANGED calls

\* Lines 764-766 with refer_incoming_attended_request (486-571): the target URI
\* carries a Replaces parameter.
refer_incoming_attended_request ==
    /\ reqPc = "classify"
    /\ \E rp \in ReplacesValues \ {"none"}, pushed \in PushResults, exists \in BOOLEAN,
          tc \in TransferContextValues :
          /\ Spend(rp # "local" \/ pushed)
          /\ hdr' = [name |-> "Replaces", value |-> rp]
          /\ CASE rp = "malformed" ->
                     /\ response' = 400
                     /\ reqPc' = "final"
                     /\ UNCHANGED <<refVars, tgtPc, calls, ctxVars>>
               [] rp = "local_nosession" ->
                     /\ response' = 603
                     /\ reqPc' = "final"
                     /\ UNCHANGED <<refVars, tgtPc, calls, ctxVars>>
               [] rp = "local" ->
                     /\ AttendedLocal(pushed)
                     /\ reqPc' = "final"
                     /\ UNCHANGED ctxVars
               [] rp = "remote" ->
                     /\ calls' = Append(calls, [op |-> "exists", thread |-> "req"])
                     /\ transfer_context' = tc
                     /\ context' = TransferContext(tc)
                     /\ IF exists
                           THEN reqPc' = "blind_call" /\ UNCHANGED response
                           ELSE reqPc' = "final" /\ response' = 404
                     /\ UNCHANGED <<refVars, tgtPc>>
    /\ UNCHANGED <<responses, accepted, progress, sub, hookVars, evsubVars,
                   serializer, notifyVars, defer_terminate, cbPc, sent,
                   cb_from_send, frame, transfer_result, alloc, inviteVars>>

\* Lines 767-768 with refer_incoming_blind_request (573-596): no Replaces parameter.
refer_incoming_blind_request ==
    /\ reqPc = "classify"
    /\ hdr' = [name |-> "Replaces", value |-> "none"]
    /\ \E exists \in BOOLEAN, tc \in TransferContextValues :
          /\ calls' = Append(calls, [op |-> "exists", thread |-> "req"])
          /\ transfer_context' = tc
          /\ context' = TransferContext(tc)
          /\ IF exists
                THEN reqPc' = "blind_call" /\ UNCHANGED response
                ELSE reqPc' = "final" /\ response' = 404
    /\ UNCHANGED <<faults, responses, accepted, progress, sub, hookVars,
                   refVars, evsubVars, serializer, notifyVars, tgtPc,
                   defer_terminate, cbPc, sent, cb_from_send, frame,
                   transfer_result, alloc, inviteVars>>

\* ast_bridge_transfer_blind is entered (lines 555, 597); it runs the callback on
\* the calling thread if it gets as far as creating the new leg.
ast_bridge_transfer_blind ==
    /\ reqPc = "blind_call"
    /\ calls' = Append(calls, [op |-> "blind", thread |-> "req"])
    /\ \E leg \in BOOLEAN :
          reqPc' = IF leg THEN "blind_cb" ELSE "blind_ret_noleg"
    /\ UNCHANGED <<faults, hdr, response, responses, accepted, progress, sub,
                   hookVars, refVars, evsubVars, serializer, notifyVars, tgtPc,
                   defer_terminate, cbPc, sent, cb_from_send, frame,
                   transfer_result, alloc, inviteVars, ctxVars>>

\* A variant of the hook attachment that does not ask whether the request has a
\* progress monitor.
AttachAlways ==
    \E attached \in BOOLEAN :
       IF attached
          THEN /\ ao2_ref("hook")
               /\ framehook' = "attached"
               /\ reqPc' = "blind_ret_leg"
               /\ UNCHANGED notifyVars
          ELSE /\ ao2_ref2("hook", "notif")
               /\ CallNotify("req", 200, TERMINATED)
               /\ reqPc' = "blind_cb_end"
               /\ UNCHANGED framehook

\* refer_blind_callback, lines 432-458: with a monitor the progress frame hook is
\* attached to the new leg, holding a reference; if attaching fails 200 is
\* notified at once. Without a monitor nothing is done.
AttachProgressHook ==
    IF progress
       THEN \E attached \in BOOLEAN :
               IF attached
                  THEN /\ ao2_ref("hook")
                       /\ framehook' = "attached"
                       /\ reqPc' = "blind_ret_leg"
                       /\ UNCHANGED notifyVars
                  ELSE /\ ao2_ref2("hook", "notif")
                       /\ CallNotify("req", 200, TERMINATED)
                       /\ reqPc' = "blind_cb_end"
                       /\ UNCHANGED framehook
       ELSE /\ reqPc' = "blind_ret_leg"
            /\ UNCHANGED <<refVars, framehook, notifyVars>>

\* refer_blind_callback (424-484), run by ast_bridge_transfer_blind on the calling
\* thread: the Referred-By header is looked up (its value plays no part here),
\* the progress hook attached, and refer->context handed to the new leg as
\* SIPREFERRINGCONTEXT (459-461), its last use.
refer_blind_callback ==
    /\ reqPc = "blind_cb"
    /\ hdr' = [name |-> "Referred-By", value |-> "any"]
    /\ transfer_context' = "none"
    /\ context' = "none"
    /\ AttachProgressHook
    /\ UNCHANGED <<faults, response, responses, accepted, progress, sub,
                   subclass, nframes, evsubVars, serializer, tgtPc, calls,
                   defer_terminate, cbPc, sent, cb_from_send, frame,
                   transfer_result, alloc, inviteVars>>

\* A variant of the end of the callback that keeps the reference taken for the
\* hook.
CallbackEndKeepsReference ==
    /\ reqPc = "blind_cb_end"
    /\ npc["req"] = "idle"
    /\ UNCHANGED refVars
    /\ reqPc' = "blind_ret_leg"
    /\ UNCHANGED <<faults, hdr, response, responses, accepted, progress, sub,
                   hookVars, evsubVars, serializer, notifyVars, tgtPc, calls,
                   defer_terminate, cbPc, sent, cb_from_send, frame,
                   transfer_result, alloc, inviteVars, ctxVars>>

\* refer_blind_callback, line 456: the hook's reference is dropped once the inline
\* notification has returned.
refer_blind_callback_end ==
    /\ reqPc = "blind_cb_end"
    /\ npc["req"] = "idle"
    /\ ao2_cleanup("hook")
    /\ reqPc' = "blind_ret_leg"
    /\ UNCHANGED <<faults, hdr, response, responses, accepted, progress, sub,
                   hookVars, evsubVars, serializer, notifyVars, tgtPc, calls,
                   defer_terminate, cbPc, sent, cb_from_send, frame,
                   transfer_result, alloc, inviteVars, ctxVars>>

\* What ast_bridge_transfer_blind can return: the request is found invalid or not
\* permitted before a leg is made; once the leg exists (and the callback has run)
\* the transfer succeeds or fails.
BlindResults(leg) ==
    IF leg THEN {"FAIL", "SUCCESS"} ELSE {"INVALID", "NOT_PERMITTED", "FAIL"}

\* Lines 555-567 and 597-609: the result of ast_bridge_transfer_blind is mapped to
\* the response.
refer_incoming_blind_request_result ==
    /\ reqPc \in {"blind_ret_leg", "blind_ret_noleg"}
    /\ \E result \in BlindResults(reqPc = "blind_ret_leg") :
          /\ transfer_result' = result
          /\ response' = TransferResponse(result)
          /\ defer_terminate' = (defer_terminate \/ result = "SUCCESS")
    /\ reqPc' = "final"
    /\ UNCHANGED <<faults, hdr, responses, accepted, progress, sub, hookVars,
                   refVars, evsubVars, serializer, notifyVars, tgtPc, calls,
                   cbPc, sent, cb_from_send, frame, alloc, inviteVars, ctxVars>>

\* A variant of the end of the handler that, with a monitor, notifies the code as
\* terminating whatever it is.
FinalNotifiesAlways ==
    /\ reqPc = "final"
    /\ IF ~progress
          THEN /\ responses' = Append(responses, response)
               /\ UNCHANGED <<refVars, notifyVars>>
          ELSE IF TRUE
          THEN /\ ao2_ref("notif")
               /\ CallNotify("req", response, TERMINATED)
               /\ UNCHANGED responses
          ELSE UNCHANGED <<responses, refVars, notifyVars>>
    /\ reqPc' = "ret"
    /\ UNCHANGED <<faults, hdr, response, accepted, progress, sub, hookVars,
                   evsubVars, serializer, tgtPc, calls, defer_terminate, cbPc,
                   sent, cb_from_send, frame, transfer_result, alloc,
                   inviteVars, ctxVars>>

\* A variant of the end of the handler that, with a monitor, leaves a failed
\* request without its terminating NOTIFY.
FinalWithoutNotify ==
    /\ reqPc = "final"
    /\ IF ~progress
          THEN /\ responses' = Append(responses, response)
               /\ UNCHANGED <<refVars, notifyVars>>
          ELSE UNCHANGED <<responses, refVars, notifyVars>>
    /\ reqPc' = "ret"
    /\ UNCHANGED <<faults, hdr, response, accepted, progress, sub, hookVars,
                   evsubVars, serializer, tgtPc, calls, defer_terminate, cbPc,
                   sent, cb_from_send, frame, transfer_result, alloc,
                   inviteVars, ctxVars>>

\* Lines 771-798: without a monitor the final response is sent at once; with one, a
\* response other than 200 is notified as the terminating NOTIFY.
refer_incoming_refer_request_final ==
    /\ reqPc = "final"
    /\ IF ~progress
          THEN /\ responses' = Append(responses, response)
               /\ UNCHANGED <<refVars, notifyVars>>
          ELSE IF response # 200
          THEN /\ ao2_ref("notif")
               /\ CallNotify("req", response, TERMINATED)
               /\ UNCHANGED responses
          ELSE UNCHANGED <<responses, refVars, notifyVars>>
    /\ reqPc' = "ret"
    /\ UNCHANGED <<faults, hdr, response, accepted, progress, sub, hookVars,
                   evsubVars, serializer, tgtPc, calls, defer_terminate, cbPc,
                   sent, cb_from_send, frame, transfer_result, alloc,
                   inviteVars, ctxVars>>

\* Line 730 (RAII_VAR): the handler's reference is dropped when it returns.
refer_incoming_refer_request_return ==
    /\ reqPc = "ret"
    /\ npc["req"] = "idle"
    /\ IF progress THEN ao2_cleanup("chain") ELSE UNCHANGED refVars
    /\ reqPc' = "done"
    /\ UNCHANGED <<faults, hdr, response, responses, accepted, progress, sub,
                   hookVars, evsubVars, serializer, notifyVars, tgtPc, calls,
                   defer_terminate, cbPc, sent, cb_from_send, frame,
                   transfer_result, alloc, inviteVars, ctxVars>>

(***************************************************************************)
(* refer_attended, the task on the second session's serializer.            *)
(***************************************************************************)

\* A variant of the attended executor that maps the result and notifies nobody.
AttendedWithoutNotify ==
    /\ tgtPc = "queued"
    /\ calls' = Append(calls, [op |-> "attended", thread |-> "tgt"])
    /\ \E result \in TransferResults :
          /\ transfer_result' = result
          /\ defer_terminate' = (defer_terminate \/ result = "SUCCESS")
          /\ UNCHANGED <<refVars, notifyVars>>
    /\ tgtPc' = "run"
    /\ UNCHANGED <<faults, reqPc, hdr, response, responses, accepted, progress,
                   sub, hookVars, evsubVars, serializer, cbPc, sent,
                   cb_from_send, frame, alloc, inviteVars, ctxVars>>

\* Lines 371-404: the attended transfer is performed and its result notified.
refer_attended ==
    /\ tgtPc = "queued"
    /\ calls' = Append(calls, [op |-> "attended", thread |-> "tgt"])
    /\ \E result \in TransferResults :
          /\ transfer_result' = result
          /\ defer_terminate' = (defer_terminate \/ result = "SUCCESS")
          /\ IF progress
                THEN /\ ao2_ref("notif")
                     /\ CallNotify("tgt", TransferResponse(result), TERMINATED)
                ELSE UNCHANGED <<refVars, notifyVars>>
    /\ tgtPc' = "run"
    /\ UNCHANGED <<faults, reqPc, hdr, response, responses, accepted, progress,
                   sub, hookVars, evsubVars, serializer, cbPc, sent,
                   cb_from_send, frame, alloc, inviteVars, ctxVars>>

\* Line 373 (RAII_VAR) with refer_attended_destroy (336-343): the task is destroyed
\* when its body returns; the destructor does not touch attended->progress.
refer_attended_destroy ==
    /\ tgtPc = "run"
    /\ npc["tgt"] = "idle"
    /\ tgtPc' = "done"
    /\ UNCHANGED <<faults, reqPc, hdr, response, responses, accepted, progress,
                   sub, hookVars, refVars, evsubVars, serializer, notifyVars,
                   calls, defer_terminate, cbPc, sent, cb_from_send, frame,
                   transfer_result, alloc, inviteVars, ctxVars>>

(***************************************************************************)
(* refer_progress_notify, executed by thread e: inline by "req" and "tgt", *)
(* as a task by "ser".                                                     *)
(***************************************************************************)

\* Thread e leaves refer_progress_notify: line 101 (RAII_VAR) destroys the
\* notification, which releases its reference on the monitor (73-78).
NotifyReturn(e) ==
    /\ ao2_cleanup("notif")
    /\ npc' = [npc EXCEPT ![e] = "idle"]
    /\ notification' = [notification EXCEPT ![e] = NoNotification]
    /\ nsub' = [nsub EXCEPT ![e] = FALSE]

\* A variant of the check that goes on to send whatever progress->sub holds.
NotifyCheckIgnoresSub(e) ==
    /\ npc[e] = "check"
    /\ IF FALSE
          THEN NotifyReturn(e)
          ELSE /\ nsub' = [nsub EXCEPT ![e] = TRUE]
               /\ npc' = [npc EXCEPT ![e] =
                             IF notification[e].state = TERMINATED THEN "clear" ELSE "send"]
               /\ UNCHANGED <<notification, refVars>>
    /\ UNCHANGED <<faults, reqPc, hdr, response, responses, accepted, progress,
                   sub, hookVars, evsubVars, serializer, tgtPc, calls,
                   defer_terminate, cbPc, sent, cb_from_send, frame,
                   transfer_result, alloc, inviteVars, ctxVars>>

\* Lines 105-115: nothing is sent once progress->sub is NULL.
refer_progress_notify_check(e) ==
    /\ npc[e] = "check"
    /\ IF ~sub
          THEN NotifyReturn(e)
          ELSE /\ nsub' = [nsub EXCEPT ![e] = TRUE]
               /\ npc' = [npc EXCEPT ![e] =
                             IF notification[e].state = TERMINATED THEN "clear" ELSE "send"]
               /\ UNCHANGED <<notification, refVars>>
    /\ UNCHANGED <<faults, reqPc, hdr, response, responses, accepted, progress,
                   sub, hookVars, evsubVars, serializer, tgtPc, calls,
                   defer_terminate, cbPc, sent, cb_from_send, frame,
                   transfer_result, alloc, inviteVars, ctxVars>>

\* A variant of the step that leaves the association in place before the send.
NotifyKeepsAssociation(e) ==
    /\ npc[e] = "clear"
    /\ dlg_lock = "none"
    /\ mod_data' = mod_data
    /\ npc' = [npc EXCEPT ![e] = "release"]
    /\ UNCHANGED <<faults, reqPc, hdr, response, responses, accepted, progress,
                   sub, hookVars, refVars, evsub_state, dlg_lock, serializer,
                   notification, nsub, tgtPc, calls, defer_terminate, cbPc,
                   sent, cb_from_send, frame, transfer_result, alloc,
                   inviteVars, ctxVars>>

\* Lines 118-120: under the dialog lock the association is cleared.
refer_progress_notify_clear(e) ==
    /\ npc[e] = "clear"
    /\ dlg_lock = "none"
    /\ mod_data' = FALSE
    /\ npc' = [npc EXCEPT ![e] = "release"]
    /\ UNCHANGED <<faults, reqPc, hdr, response, responses, accepted, progress,
                   sub, hookVars, refVars, evsub_state, dlg_lock, serializer,
                   notification, nsub, tgtPc, calls, defer_terminate, cbPc,
                   sent, cb_from_send, frame, transfer_result, alloc,
                   inviteVars, ctxVars>>

\* Lines 122-125: the reference the subscription held is dropped and
\* progress->sub set to NULL.
refer_progress_notify_release(e) ==
    /\ npc[e] = "release"
    /\ ao2_cleanup("sub")
    /\ sub' = FALSE
    /\ npc' = [npc EXCEPT ![e] = "send"]
    /\ UNCHANGED <<faults, reqPc, hdr, response, responses, accepted, progress,
                   hookVars, evsubVars, serializer, notification, nsub, tgtPc,
                   calls, defer_terminate, cbPc, sent, cb_from_send, frame,
                   transfer_result, alloc, inviteVars, ctxVars>>

\* Lines 128-136: the NOTIFY is built and sent on the local `sub`, and the function
\* returns (NotifyReturn). Sending state TERMINATED makes PJSIP run the state
\* callback on this thread, which finds the association cleared ("noop") or would
\* queue a synchronous task ("sync").
refer_progress_notify_send(e) ==
    /\ npc[e] = "send"
    /\ \E ok \in SendResults :
          /\ Spend(ok)
          /\ IF ok
                THEN /\ sent' = Append(sent, notification[e])
                     /\ IF notification[e].state = TERMINATED
                           THEN /\ evsub_state' = TERMINATED
                                /\ cb_from_send' = IF mod_data THEN "sync" ELSE "noop"
                           ELSE UNCHANGED <<evsub_state, cb_from_send>>
                ELSE UNCHANGED <<sent, evsub_state, cb_from_send>>
    /\ NotifyReturn(e)
    /\ UNCHANGED <<reqPc, hdr, response, responses, accepted, progress, sub,
                   hookVars, mod_data, dlg_lock, serializer, tgtPc, calls,
                   defer_terminate, cbPc, frame, transfer_result, alloc,
                   inviteVars, ctxVars>>

(***************************************************************************)
(* The monitor's serializer.                                               *)
(***************************************************************************)

NotifyTask(n) == [kind |-> "notify", response |-> n.response, state |-> n.state]

TerminateTask == [kind |-> "terminate", response |-> 0, state |-> "NONE"]

\* The serializer runs the next queued refer_progress_notify task (pushed at
\* lines 175 and 197).
serializer_notify ==
    /\ npc["ser"] = "idle"
    /\ serializer # <<>>
    /\ Head(serializer).kind = "notify"
    /\ CallNotify("ser", Head(serializer).response, Head(serializer).state)
    /\ serializer' = Tail(serializer)
    /\ UNCHANGED <<faults, reqPc, hdr, response, responses, accepted, progress,
                   sub, hookVars, refVars, evsubVars, tgtPc, calls,
                   defer_terminate, cbPc, sent, cb_from_send, frame,
                   transfer_result, alloc, inviteVars, ctxVars>>

\* refer_progress_terminate (205-213), the synchronous task pushed at line 229.
refer_progress_terminate ==
    /\ npc["ser"] = "idle"
    /\ serializer # <<>>
    /\ Head(serializer).kind = "terminate"
    /\ sub' = FALSE
    /\ serializer' = Tail(serializer)
    /\ cbPc' = "relock"
    /\ UNCHANGED <<faults, reqPc, hdr, response, responses, accepted, progress,
                   hookVars, refVars, evsubVars, notifyVars, tgtPc, calls,
                   defer_terminate, sent, cb_from_send, frame, transfer_result,
                   alloc, inviteVars, ctxVars>>

(***************************************************************************)
(* The progress frame hook on the transferred-to leg.                      *)
(***************************************************************************)

\* A variant of the frame classification that takes RING for a subclass of no
\* interest.
RingNotReported(f, last) ==
    IF f.event # "WRITE" \/ f.frametype = "NULL" THEN NoNotification
    ELSE IF f.frametype = "VOICE" /\ last = "none"
         THEN [response |-> 200, state |-> TERMINATED]
    ELSE IF f.frametype = "CONTROL"
         THEN CASE f.sc = "RINGING" -> [response |-> 180, state |-> ACTIVE]
                [] f.sc = "BUSY" -> [response |-> 486, state |-> TERMINATED]
                [] f.sc = "CONGESTION" -> [response |-> 503, state |-> TERMINATED]
                [] f.sc = "PROGRESS" -> [response |-> 183, state |-> ACTIVE]
                [] f.sc = "PROCEEDING" -> [response |-> 100, state |-> ACTIVE]
                [] f.sc = "ANSWER" -> [response |-> 200, state |-> TERMINATED]
                [] OTHER -> NoNotification
    ELSE NoNotification

\* A variant of the frame classification that reports a control subclass only
\* when it differs from the one recorded last.
ChangedSubclassOnly(f, last) ==
    IF f.event # "WRITE" \/ f.frametype = "NULL" THEN NoNotification
    ELSE IF f.frametype = "VOICE" /\ last = "none"
         THEN [response |-> 200, state |-> TERMINATED]
    ELSE IF f.frametype = "CONTROL" /\ f.sc # last
         THEN CASE f.sc \in {"RING", "RINGING"} -> [response |-> 180, state |-> ACTIVE]
                [] f.sc = "BUSY" -> [response |-> 486, state |-> TERMINATED]
                [] f.sc = "CONGESTION" -> [response |-> 503, state |-> TERMINATED]
                [] f.sc = "PROGRESS" -> [response |-> 183, state |-> ACTIVE]
                [] f.sc = "PROCEEDING" -> [response |-> 100, state |-> ACTIVE]
                [] f.sc = "ANSWER" -> [response |-> 200, state |-> TERMINATED]
                [] OTHER -> NoNotification
    ELSE NoNotification

\* A variant of the frame classification that reports any written voice frame as
\* answered, whatever control frame went before.
AnyVoiceAnswers(f, last) ==
    IF f.event # "WRITE" \/ f.frametype = "NULL" THEN NoNotification
    ELSE IF f.frametype = "VOICE"
         THEN [response |-> 200, state |-> TERMINATED]
    ELSE IF f.frametype = "CONTROL"
         THEN CASE f.sc \in {"RING", "RINGING"} -> [response |-> 180, state |-> ACTIVE]
                [] f.sc = "BUSY" -> [response |-> 486, state |-> TERMINATED]
                [] f.sc = "CONGESTION" -> [response |-> 503, state |-> TERMINATED]
                [] f.sc = "PROGRESS" -> [response |-> 183, state |-> ACTIVE]
                [] f.sc = "PROCEEDING" -> [response |-> 100, state |-> ACTIVE]
                [] f.sc = "ANSWER" -> [response |-> 200, state |-> TERMINATED]
                [] OTHER -> NoNotification
    ELSE NoNotification

\* Lines 145-171: the notification a frame gives rise to, NoNotification for none.
FrameNotification(f, last) ==
    IF f.event # "WRITE" \/ f.frametype = "NULL" THEN NoNotification
    ELSE IF f.frametype = "VOICE" /\ last = "none"
         THEN [response |-> 200, state |-> TERMINATED]
    ELSE IF f.frametype = "CONTROL"
         THEN CASE f.sc \in {"RING", "RINGING"} -> [response |-> 180, state |-> ACTIVE]
                [] f.sc = "BUSY" -> [response |-> 486, state |-> TERMINATED]
                [] f.sc = "CONGESTION" -> [response |-> 503, state |-> TERMINATED]
                [] f.sc = "PROGRESS" -> [response |-> 183, state |-> ACTIVE]
                [] f.sc = "PROCEEDING" -> [response |-> 100, state |-> ACTIVE]
                [] f.sc = "ANSWER" -> [response |-> 200, state |-> TERMINATED]
                [] OTHER -> NoNotification
    ELSE NoNotification

\* Lines 151-155: progress->subclass after the frame.
FrameSubclass(f, last) ==
    IF /\ f.event = "WRITE"
       /\ f.frametype = "CONTROL"
       THEN f.sc
       ELSE last

\* refer_progress_framehook (140-189), one invocation. When the push fails the
\* notification is destroyed before line 180 reads its state: the detach decision
\* is then whatever the freed memory holds.
refer_progress_framehook ==
    /\ framehook = "attached"
    /\ nframes < MaxFrames
    /\ \E f \in Frames, pushed \in PushResults, stale \in BOOLEAN :
          LET n == FrameNotification(f, subclass) IN
          /\ nframes' = IF n = NoNotification /\ FrameSubclass(f, subclass) = subclass
                            THEN nframes ELSE nframes + 1
          /\ Spend(n = NoNotification \/ pushed)
          /\ frame' = f
          /\ subclass' = FrameSubclass(f, subclass)
          /\ IF n = NoNotification
                THEN UNCHANGED <<refVars, serializer, framehook>>
                ELSE IF pushed
                THEN /\ ao2_ref("notif")
                     /\ serializer' = Append(serializer, NotifyTask(n))
                     /\ framehook' = IF n.state = TERMINATED THEN "detached" ELSE framehook
                ELSE /\ UNCHANGED <<refVars, serializer>>
                     /\ framehook' = IF stale THEN "detached" ELSE framehook
    /\ UNCHANGED <<reqPc, hdr, response, responses, accepted, progress, sub,
                   evsubVars, notifyVars, tgtPc, calls, defer_terminate, cbPc,
                   sent, cb_from_send, transfer_result, alloc, inviteVars,
                   ctxVars>>

\* A variant of the hook's destructor that makes its 503 only while progress->sub
\* is set.
DestroyNoticeWhileLive ==
    /\ framehook \in {"attached", "detached"}
    /\ framehook' = "destroyed"
    /\ \E pushed \in IF sub THEN PushResults ELSE {FALSE} :
          /\ Spend(pushed \/ ~sub)
          /\ IF pushed
                THEN /\ ao2_ref_cleanup("notif", "hook")
                     /\ serializer' = Append(serializer,
                            NotifyTask([response |-> 503, state |-> TERMINATED]))
                ELSE /\ ao2_cleanup("hook")
                     /\ UNCHANGED serializer
    /\ UNCHANGED <<reqPc, hdr, response, responses, accepted, progress, sub,
                   subclass, nframes, evsubVars, notifyVars, tgtPc, calls,
                   defer_terminate, cbPc, sent, cb_from_send, frame,
                   transfer_result, alloc, inviteVars, ctxVars>>

\* A variant of the hook's destructor that only drops the hook's reference.
DestroyWithoutNotice ==
    /\ framehook \in {"attached", "detached"}
    /\ framehook' = "destroyed"
    /\ ao2_cleanup("hook")
    /\ UNCHANGED <<faults, serializer>>
    /\ UNCHANGED <<reqPc, hdr, response, responses, accepted, progress, sub,
                   subclass, nframes, evsubVars, notifyVars, tgtPc, calls,
                   defer_terminate, cbPc, sent, cb_from_send, frame,
                   transfer_result, alloc, inviteVars, ctxVars>>

\* refer_progress_framehook_destroy (192-202): the hook is destroyed, after a detach
\* or with the leg; a terminating 503 is queued and the hook's reference dropped.
refer_progress_framehook_destroy ==
    /\ framehook \in {"attached", "detached"}
    /\ framehook' = "destroyed"
    /\ \E pushed \in PushResults :
          /\ Spend(pushed)
          /\ IF pushed
                THEN /\ ao2_ref_cleanup("notif", "hook")
                     /\ serializer' = Append(serializer,
                            NotifyTask([response |-> 503, state |-> TERMINATED]))
                ELSE /\ ao2_cleanup("hook")
                     /\ UNCHANGED serializer
    /\ UNCHANGED <<reqPc, hdr, response, responses, accepted, progress, sub,
                   subclass, nframes, evsubVars, notifyVars, tgtPc, calls,
                   defer_terminate, cbPc, sent, cb_from_send, frame,
                   transfer_result, alloc, inviteVars, ctxVars>>

(***************************************************************************)
(* refer_progress_on_evsub_state for a subscription the remote side has    *)
(* terminated, on a PJSIP thread that holds the dialog lock.               *)
(***************************************************************************)

\* Lines 216-221: PJSIP has moved the subscription to TERMINATED and calls back.
refer_progress_on_evsub_state ==
    /\ cbPc = "idle"
    /\ evsub_state = ACTIVE
    /\ dlg_lock = "none"
    /\ evsub_state' = TERMINATED
    /\ IF mod_data
          THEN dlg_lock' = "cb" /\ cbPc' = "unlock"
          ELSE dlg_lock' = "none" /\ cbPc' = "done"
    /\ UNCHANGED <<faults, reqPc, hdr, response, responses, accepted, progress,
                   sub, hookVars, refVars, mod_data, serializer, notifyVars,
                   tgtPc, calls, defer_terminate, sent, cb_from_send, frame,
                   transfer_result, alloc, inviteVars, ctxVars>>

\* A variant of the callback that pushes its synchronous task without unlocking
\* the dialog.
PushHoldingDialogLock ==
    /\ cbPc = "unlock"
    /\ ao2_ref("cb")
    /\ dlg_lock' = dlg_lock
    /\ \E pushed \in PushResults :
          /\ Spend(pushed)
          /\ IF pushed
                THEN /\ serializer' = Append(serializer, TerminateTask)
                     /\ cbPc' = "wait"
                ELSE /\ UNCHANGED serializer
                     /\ cbPc' = "relock"
    /\ UNCHANGED <<reqPc, hdr, response, responses, accepted, progress, sub,
                   hookVars, mod_data, evsub_state, notifyVars, tgtPc, calls,
                   defer_terminate, sent, cb_from_send, frame, transfer_result,
                   alloc, inviteVars, ctxVars>>

\* Lines 226-229: an extra reference is taken, the dialog unlocked and
\* refer_progress_terminate pushed with ast_sip_push_task_synchronous; the thread
\* waits for the task unless the push is refused.
refer_progress_on_evsub_state_push ==
    /\ cbPc = "unlock"
    /\ ao2_ref("cb")
    /\ dlg_lock' = "none"
    /\ \E pushed \in PushResults :
          /\ Spend(pushed)
          /\ IF pushed
                THEN /\ serializer' = Append(serializer, TerminateTask)
                     /\ cbPc' = "wait"
                ELSE /\ UNCHANGED serializer
                     /\ cbPc' = "relock"
    /\ UNCHANGED <<reqPc, hdr, response, responses, accepted, progress, sub,
                   hookVars, mod_data, evsub_state, notifyVars, tgtPc, calls,
                   defer_terminate, sent, cb_from_send, frame, transfer_result,
                   alloc, inviteVars, ctxVars>>

\* Lines 230-231: the dialog is locked again and the extra reference dropped.
refer_progress_on_evsub_state_relock ==
    /\ cbPc = "relock"
    /\ dlg_lock = "none"
    /\ dlg_lock' = "cb"
    /\ ao2_cleanup("cb")
    /\ cbPc' = "recheck"
    /\ UNCHANGED <<faults, reqPc, hdr, response, responses, accepted, progress,
                   sub, hookVars, mod_data, evsub_state, serializer, notifyVars,
                   tgtPc, calls, defer_terminate, sent, cb_from_send, frame,
                   transfer_result, alloc, inviteVars, ctxVars>>

\* Lines 235-240: the association is cleared and its reference dropped if it is
\* still set; PJSIP unlocks the dialog when the callback returns.
refer_progress_on_evsub_state_recheck ==
    /\ cbPc = "recheck"
    /\ IF mod_data
          THEN mod_data' = FALSE /\ ao2_cleanup("sub")
          ELSE UNCHANGED <<mod_data, refVars>>
    /\ dlg_lock' = "none"
    /\ cbPc' = "done"
    /\ UNCHANGED <<faults, reqPc, hdr, response, responses, accepted, progress,
                   sub, hookVars, evsub_state, serializer, notifyVars, tgtPc,
                   calls, defer_terminate, sent, cb_from_send, frame,
                   transfer_result, alloc, inviteVars, ctxVars>>

(***************************************************************************)
(* refer_incoming_invite_request, on the thread of the session the INVITE  *)
(* came in on, and its task invite_replaces on the other session's         *)
(* serializer.                                                             *)
(***************************************************************************)

\* What pjsip_replaces_verify_request and ast_sip_dialog_get_session can find
\* (650-670): a bad Replaces header, no Replaces header, a dialog without a
\* session, a dialog with its session.
ReplacesVerdicts == {"invalid", "absent", "no_session", "session"}

\* Line 652: the status code of the response pjsip_replaces_verify_request built.
VerifyStatusCodes == {400, 481}

\* A variant of the verification step that answers a dialog without a session
\* with 404.
InviteNoSessionNotFound ==
    /\ reqPc = "recv"
    /\ \E v \in ReplacesVerdicts, code \in VerifyStatusCodes :
          /\ verify' = [verdict |-> v, code |-> IF v = "invalid" THEN code ELSE 0]
          /\ CASE v = "invalid" -> response' = code /\ reqPc' = "inv_end"
               [] v = "absent" -> response' = response /\ reqPc' = "inv_pass"
               [] v = "no_session" -> response' = 404 /\ reqPc' = "inv_end"
               [] v = "session" -> response' = response /\ reqPc' = "inv_push"
    /\ UNCHANGED <<faults, hdr, responses, accepted, progress, sub, hookVars,
                   refVars, evsubVars, serializer, notifyVars, tgtPc, calls,
                   defer_terminate, cbPc, sent, cb_from_send, frame,
                   transfer_result, alloc, invite, chan_state,
                   session_channel, ctxVars>>

\* Lines 650-670: the Replaces header is verified and the session of the dialog
\* it names looked up. A bad header fails with the code PJSIP chose, a missing
\* session with 481; an INVITE without Replaces is not handled here (return 0).
refer_incoming_invite_request ==
    /\ reqPc = "recv"
    /\ \E v \in ReplacesVerdicts, code \in VerifyStatusCodes :
          /\ verify' = [verdict |-> v, code |-> IF v = "invalid" THEN code ELSE 0]
          /\ CASE v = "invalid" -> response' = code /\ reqPc' = "inv_end"
               [] v = "absent" -> response' = response /\ reqPc' = "inv_pass"
               [] v = "no_session" -> response' = 481 /\ reqPc' = "inv_end"
               [] v = "session" -> response' = response /\ reqPc' = "inv_push"
    /\ UNCHANGED <<faults, hdr, responses, accepted, progress, sub, hookVars,
                   refVars, evsubVars, serializer, notifyVars, tgtPc, calls,
                   defer_terminate, cbPc, sent, cb_from_send, frame,
                   transfer_result, alloc, invite, chan_state,
                   session_channel, ctxVars>>

\* Lines 672-677: invite_replaces is pushed synchronously to the other session's
\* serializer; the handler waits for it. A refused push is answered 481.
refer_incoming_invite_request_push ==
    /\ reqPc = "inv_push"
    /\ \E pushed \in PushResults :
          /\ Spend(pushed)
          /\ IF pushed
                THEN /\ tgtPc' = "invite_queued"
                     /\ reqPc' = "inv_wait"
                     /\ UNCHANGED response
                ELSE /\ response' = 481
                     /\ reqPc' = "inv_end"
                     /\ UNCHANGED tgtPc
    /\ UNCHANGED <<hdr, responses, accepted, progress, sub, hookVars, refVars,
                   evsubVars, serializer, notifyVars, calls, defer_terminate,
                   cbPc, sent, cb_from_send, frame, transfer_result, alloc,
                   inviteVars, ctxVars>>

\* invite_replaces (622-639), on the other session's serializer: without a
\* channel it fails; else the channel and the bridge it is in (if any) are
\* stored. Its return wakes the waiting handler.
invite_replaces ==
    /\ tgtPc = "invite_queued"
    /\ reqPc = "inv_wait"
    /\ calls' = Append(calls, [op |-> "invite_replaces", thread |-> "tgt"])
    /\ \E channel \in BOOLEAN, bridge \in BOOLEAN :
          invite' = IF channel
                       THEN [channel |-> TRUE, bridge |-> bridge]
                       ELSE NoInvite
    /\ tgtPc' = "idle"
    /\ reqPc' = "inv_woken"
    /\ UNCHANGED <<faults, hdr, response, responses, accepted, progress, sub,
                   hookVars, refVars, evsubVars, serializer, notifyVars,
                   defer_terminate, cbPc, sent, cb_from_send, frame,
                   transfer_result, alloc, chan_state, session_channel, verify,
                   ctxVars>>

\* Lines 674-680: a failed task is answered 481; otherwise the new call's channel
\* is set ringing and answered (ast_raw_answer leaves it up).
refer_incoming_invite_request_answer ==
    /\ reqPc = "inv_woken"
    /\ IF invite.channel
          THEN /\ chan_state' = "UP"
               /\ reqPc' = "inv_swap"
               /\ UNCHANGED response
          ELSE /\ response' = 481
               /\ reqPc' = "inv_end"
               /\ UNCHANGED chan_state
    /\ UNCHANGED <<faults, hdr, responses, accepted, progress, sub, hookVars,
                   refVars, evsubVars, serializer, notifyVars, tgtPc, calls,
                   defer_terminate, cbPc, sent, cb_from_send, frame,
                   transfer_result, alloc, invite, session_channel, verify,
                   ctxVars>>

\* ast_channel_move and ast_bridge_impart may fail.
SwapResults == IF faults > 0 THEN BOOLEAN ELSE {TRUE}

\* A variant of the swap that leaves both channels alive after a successful
\* ast_channel_move.
SwapWithoutHangup ==
    /\ reqPc = "inv_swap"
    /\ \E ok \in SwapResults :
          /\ Spend(ok)
          /\ calls' = Append(calls, [op |-> IF invite.bridge THEN "impart" ELSE "move",
                                     thread |-> "req"])
          /\ response' = IF ok THEN response ELSE 500
    /\ reqPc' = "inv_end"
    /\ UNCHANGED <<hdr, responses, accepted, progress, sub, hookVars, refVars,
                   evsubVars, serializer, notifyVars, tgtPc, defer_terminate,
                   cbPc, sent, cb_from_send, frame, transfer_result, alloc,
                   inviteVars, ctxVars>>

\* Lines 682-696: without a bridge the new call's channel is moved into the old
\* one and the emptied channel hung up; with a bridge the new call's channel is
\* imparted to it in place of the old one. Either failing sets 500.
refer_incoming_invite_request_swap ==
    /\ reqPc = "inv_swap"
    /\ \E ok \in SwapResults :
          /\ Spend(ok)
          /\ calls' = IF invite.bridge
                         THEN Append(calls, [op |-> "impart", thread |-> "req"])
                         ELSE IF ok
                         THEN calls \o <<[op |-> "move", thread |-> "req"],
                                         [op |-> "hangup", thread |-> "req"]>>
                         ELSE Append(calls, [op |-> "move", thread |-> "req"])
          /\ response' = IF ok THEN response ELSE 500
    /\ reqPc' = "inv_end"
    /\ UNCHANGED <<hdr, responses, accepted, progress, sub, hookVars, refVars,
                   evsubVars, serializer, notifyVars, tgtPc, defer_terminate,
                   cbPc, sent, cb_from_send, frame, transfer_result, alloc,
                   inviteVars, ctxVars>>

\* pjsip_inv_end_session may fail to build the response.
EndSessionResults == IF faults > 0 THEN BOOLEAN ELSE {TRUE}

\* Lines 706-719: with a response set the session's termination is deferred, its
\* channel hung up and forgotten, and the response sent as the INVITE's final
\* answer if PJSIP can build it. The request was handled (return 1).
refer_incoming_invite_request_end ==
    /\ reqPc = "inv_end"
    /\ IF response # 0
          THEN /\ defer_terminate' = TRUE
               /\ calls' = Append(calls, [op |-> "hangup", thread |-> "req"])
               /\ session_channel' = FALSE
               /\ \E ended \in EndSessionResults :
                     /\ Spend(ended)
                     /\ responses' = IF ended THEN Append(responses, response)
                                              ELSE responses
          ELSE UNCHANGED <<faults, defer_terminate, calls, session_channel,
                           responses>>
    /\ reqPc' = "inv_done"
    /\ UNCHANGED <<hdr, response, accepted, progress, sub, hookVars, refVars,
                   evsubVars, serializer, notifyVars, tgtPc, cbPc, sent,
                   cb_from_send, frame, transfer_result, alloc, invite,
                   chan_state, verify, ctxVars>>

(***************************************************************************)
(* Specifications.                                                         *)
(***************************************************************************)

Requester ==
    \/ refer_incoming_refer_request_target
    \/ refer_progress_alloc
    \/ refer_incoming_attended_request
    \/ refer_incoming_blind_request
    \/ ast_bridge_transfer_blind
    \/ refer_blind_callback
    \/ refer_blind_callback_end
    \/ refer_incoming_blind_request_result
    \/ refer_incoming_refer_request_final
    \/ refer_incoming_refer_request_return
    \/ refer_incoming_invite_request
    \/ refer_incoming_invite_request_push
    \/ refer_incoming_invite_request_answer
    \/ refer_incoming_invite_request_swap
    \/ refer_incoming_invite_request_end

Target ==
    \/ refer_attended
    \/ refer_attended_destroy
    \/ invite_replaces

Notify(e) ==
    \/ refer_progress_notify_check(e)
    \/ refer_progress_notify_clear(e)
    \/ refer_progress_notify_release(e)
    \/ refer_progress_notify_send(e)

Serializer ==
    \/ serializer_notify
    \/ refer_progress_terminate

StateCallback ==
    \/ refer_progress_on_evsub_state_push
    \/ refer_progress_on_evsub_state_relock
    \/ refer_progress_on_evsub_state_recheck

Next ==
    \/ Requester
    \/ Target
    \/ \E e \in Executors : Notify(e)
    \/ Serializer
    \/ refer_progress_framehook
    \/ refer_progress_framehook_destroy
    \/ refer_progress_on_evsub_state
    \/ StateCallback

Spec == Init /\ [][Next]_vars

\* An environment that refuses no push, send or allocation.
FairInit == InitWith(0)

\* Every thread that can take a step eventually does, and the transferred-to leg
\* (with its frame hook) is eventually destroyed. Frames are not forced to arrive.
Fairness ==
    /\ WF_vars(Requester)
    /\ WF_vars(Target)
    /\ \A e \in Executors : WF_vars(Notify(e))
    /\ WF_vars(Serializer)
    /\ WF_vars(StateCallback)
    /\ WF_vars(refer_progress_framehook_destroy)

FairSpec == FairInit /\ [][Next]_vars /\ Fairness

(***************************************************************************)
(* Properties.                                                             *)
(***************************************************************************)

\* Positions in `sent` of the NOTIFY requests with Subscription-State terminated.
TermSent == {i \in 1..Len(sent) : sent[i].state = TERMINATED}

\* Every thread has finished with the request and the transferred-to leg is gone.
Quiescent ==
    /\ reqPc = "done"
    /\ tgtPc \in {"idle", "done"}
    /\ \A e \in Executors : npc[e] = "idle"
    /\ serializer = <<>>
    /\ framehook \in {"unattached", "destroyed"}
    /\ cbPc \in {"idle", "done"}

\* C1: on a monitor's subscription at most one NOTIFY with state terminated is
\* ever sent, and no NOTIFY (active or terminated) is sent after it.
C1_OneTerminalNothingAfter ==
    /\ Cardinality(TermSent) <= 1
    /\ \A i \in TermSent : i = Len(sent)

OptedOut ==
    /\ ~progress
    /\ \/ reqPc \in {"classify", "blind_call", "blind_cb", "blind_cb_end",
                     "blind_ret_leg", "blind_ret_noleg", "final", "ret"}
       \/ reqPc = "done" /\ response # 0

\* C3: for a request that opts out of monitoring, exactly one final response is
\* sent, by the handler itself, and nothing of the notification path is touched:
\* no reference, no accepted subscription, no hook, no notification in progress,
\* queued or sent, whatever path is taken and whatever the bridging result.
C3_OptOutOneResponseNoNotification ==
    OptedOut =>
       /\ responses = IF reqPc \in {"ret", "done"} THEN <<response>> ELSE <<>>
       /\ refs = 0
       /\ \A h \in Holders : held[h] = 0
       /\ ~accepted /\ ~sub /\ ~mod_data /\ evsub_state = "NULL"
       /\ framehook = "unattached"
       /\ serializer = <<>>
       /\ sent = <<>>
       /\ \A e \in Executors : npc[e] = "idle" /\ notification[e] = NoNotification

\* An opted-out blind transfer whose callback ran and whose handler has returned.
C3_Witness ==
    /\ OptedOut
    /\ reqPc = "done"
    /\ hdr.name = "Referred-By"
    /\ transfer_result = "SUCCESS"
    /\ responses = <<200>>

\* The transfer attempt failed: the target extension does not exist, or the
\* bridging core returned something other than success.
AttemptFailed ==
    \/ transfer_result \in {"INVALID", "NOT_PERMITTED", "FAIL"}
    \/ transfer_result = "none" /\ response = 404

\* The code of the failed attempt.
FailureCode ==
    IF transfer_result = "none" THEN 404 ELSE TransferResponse(transfer_result)

\* C4: once a failed transfer attempt has run its course (no injected failure, no
\* remote termination), the requester has got the attempt's failure code exactly
\* once: as the final response when there is no monitor, as the one terminated
\* NOTIFY when there is, and never both.
C4_FailureReportedOnce ==
    (Quiescent /\ AttemptFailed /\ faults = MaxFaults /\ cbPc = "idle") =>
       IF progress
          THEN /\ responses = <<>>
               /\ Cardinality(TermSent) = 1
               /\ \A i \in TermSent : sent[i].response = FailureCode
          ELSE /\ responses = <<FailureCode>>
               /\ sent = <<>>

\* C5: when the remote side has terminated the subscription, no two terminated
\* NOTIFY requests are sent on it.
C5_RemoteTerminationOneTerminal ==
    cbPc # "idle" => Cardinality(TermSent) <= 1

\* C6: refer_progress_notify only ever executes on the monitor's own serializer,
\* and so never in two threads at once.
C6_NotifyOnlyOnSerializer ==
    /\ \A e \in Executors : npc[e] # "idle" => e = "ser"
    /\ Cardinality({e \in Executors : npc[e] # "idle"}) <= 1

\* C7: the attended transfer is only ever performed by the task on the second
\* session's serializer; for a Replaces dialog of ours the requesting thread
\* calls neither the bridging core nor the dialplan.
C7_AttendedOnTargetSerializer ==
    /\ \A i \in 1..Len(calls) :
          calls[i].op = "attended" => calls[i].thread = "tgt"
    /\ hdr = [name |-> "Replaces", value |-> "local"] =>
          \A i \in 1..Len(calls) : calls[i].thread # "req"

\* The attended transfer has been performed for a Replaces dialog of ours.
C7_Witness ==
    /\ hdr = [name |-> "Replaces", value |-> "local"]
    /\ tgtPc = "done"
    /\ \E i \in 1..Len(calls) : calls[i].op = "attended"

\* A step of the frame hook that is handed a written voice frame.
VoiceWritten ==
    /\ nframes' # nframes \/ frame' # frame
    /\ frame'.event = "WRITE"
    /\ frame'.frametype = "VOICE"

\* C8 as stated: a voice frame written to the monitored leg always makes the hook
\* queue the 200 terminated notification, whatever preceded it (unless the push
\* is refused).
C8_VoiceAlwaysAnswered ==
    [][(VoiceWritten /\ faults' = faults) =>
          serializer' = Append(serializer, NotifyTask(
                            [response |-> 200, state |-> TERMINATED]))]_vars

\* C8 as the code has it: a voice frame written while progress->subclass is still
\* unset makes the hook queue the 200 terminated notification and detach (unless
\* the push is refused); written after any control frame it queues nothing and
\* leaves the hook as it is.
C8_VoiceBeforeControlAnswered ==
    [][VoiceWritten =>
          IF subclass = "none"
             THEN faults' = faults =>
                     /\ serializer' = Append(serializer, NotifyTask(
                                         [response |-> 200, state |-> TERMINATED]))
                     /\ framehook' = "detached"
             ELSE /\ serializer' = serializer
                  /\ framehook' = framehook
                  /\ refs' = refs]_vars

\* The hook has just queued 200 terminated for a voice frame that came first.
C8_Witness ==
    /\ frame = [event |-> "WRITE", frametype |-> "VOICE", sc |-> "none"]
    /\ subclass = "none"
    /\ framehook = "detached"
    /\ serializer # <<>>
    /\ serializer[Len(serializer)] =
          NotifyTask([response |-> 200, state |-> TERMINATED])

\* C9: no holder releases more references than it took, the count never goes
\* below zero, and the monitor is not destroyed while a holder still has a
\* reference.
C9_NoUnderflowNoEarlyDestroy ==
    /\ refs >= 0
    /\ \A h \in Holders : held[h] >= 0
    /\ destroyed => \A h \in Holders : held[h] = 0

\* C10: a request whose Refer-To header is missing, does not parse, or has an
\* unsupported scheme is answered 400 and nothing else happens: no monitor, no
\* subscription, no dialplan lookup, no bridging call, no task.
C10_BadTargetRejected ==
    (hdr.name = "Refer-To" /\ hdr.value # "sip") =>
       /\ reqPc = "done"
       /\ responses = <<400>>
       /\ ~progress /\ ~sub /\ ~accepted /\ ~mod_data
       /\ evsub_state = "NULL"
       /\ refs = 0
       /\ calls = <<>>
       /\ sent = <<>>
       /\ serializer = <<>>
       /\ tgtPc = "idle"

\* A request with an unsupported scheme has been answered.
C10_Witness ==
    /\ hdr = [name |-> "Refer-To", value |-> "badscheme"]
    /\ responses = <<400>>

\* refer_progress_alloc returned an error.
AllocFailed == alloc \in {"no_memory", "no_serializer", "no_subscription"}

\* C11: when monitoring is requested and the monitor cannot be made (allocation,
\* serializer or subscription creation fails), the request is answered 500 and
\* the handler is done: no classification (Replaces lookup), no dialplan or
\* bridging call, no task; and nothing of the subscription was produced: no
\* association, no 202 accept, no initial NOTIFY, no reference left.
C11_AllocFailureRejected ==
    AllocFailed =>
       /\ hdr.name = "Refer-Sub" /\ hdr.value # "false"
       /\ reqPc = "done"
       /\ responses = <<500>>
       /\ response = 0
       /\ calls = <<>>
       /\ tgtPc = "idle"
       /\ transfer_result = "none"
       /\ ~progress /\ ~sub /\ ~mod_data /\ ~accepted
       /\ evsub_state = "NULL"
       /\ sent = <<>>
       /\ refs = 0
       /\ \A h \in Holders : held[h] = 0

\* Creating the subscription failed and the request was answered 500.
C11_Witness ==
    /\ alloc = "no_subscription"
    /\ destroyed
    /\ responses = <<500>>

\* C12 as stated: a failure to construct the monitor never aborts the transfer;
\* the handler only finishes after the target was classified and the transfer
\* attempted (which always leaves a response code in `response`).
C12_AllocFailureDoesNotAbort ==
    (AllocFailed /\ reqPc = "done") => response # 0

\* C12 as the code has it: a failure to construct the monitor does abort the
\* transfer (500, nothing classified or called); what does not abort it is a
\* failure of the notification path once the monitor exists: with a monitor the
\* handler always goes on to classify the target, even when the initial NOTIFY
\* could not be built.
C12_OnlyNotificationFailuresTolerated ==
    /\ (AllocFailed /\ reqPc = "done") =>
          response = 0 /\ calls = <<>> /\ responses = <<500>>
    /\ (alloc = "ok" /\ reqPc \in {"final", "ret", "done"}) =>
          response # 0 /\ hdr.name \in {"Replaces", "Referred-By"}

\* The initial NOTIFY could not be built, and the transfer went ahead and
\* succeeded.
C12_Witness ==
    /\ alloc = "ok"
    /\ sent = <<>>
    /\ reqPc = "done"
    /\ transfer_result = "SUCCESS"

\* The code with which a Replaces parameter that cannot be used is refused.
ReplacesRejection(rp) == IF rp = "malformed" THEN 400 ELSE 603

\* C13 as stated: a Replaces parameter that is malformed, names no local dialog,
\* or names a local dialog without a session is refused with 400 or 404, and no
\* bridging call is made for the request.
C13_BadReplacesRejected ==
    (hdr.name = "Replaces" /\ hdr.value \in {"malformed", "remote", "local_nosession"}) =>
       /\ response \in {0, 400, 404}
       /\ \A i \in 1..Len(calls) : calls[i].op \notin {"blind", "attended"}

\* C13 as the code has it: a malformed Replaces parameter is refused with 400 and
\* a local dialog without a session with 603; neither the dialplan nor the
\* bridging core is called, without a monitor the code is the final response and
\* with one it is the one terminated NOTIFY (when nothing fails to be sent and
\* the remote side has not terminated the subscription). A Replaces parameter
\* naming no local dialog is refused, with 404, only if the context has no
\* "external_replaces" extension; otherwise the request goes on to
\* ast_bridge_transfer_blind.
C13_BadReplacesRejectedOrExternal ==
    /\ \A rp \in {"malformed", "local_nosession"} :
          hdr = [name |-> "Replaces", value |-> rp] =>
             /\ response = ReplacesRejection(rp)
             /\ calls = <<>>
             /\ tgtPc = "idle"
             /\ framehook = "unattached"
             /\ (~progress /\ reqPc \in {"ret", "done"}) =>
                   responses = <<ReplacesRejection(rp)>> /\ sent = <<>>
             /\ (progress /\ reqPc = "done" /\ faults = MaxFaults /\ cbPc = "idle") =>
                   /\ responses = <<>>
                   /\ sent = <<[response |-> 100, state |-> ACTIVE],
                               [response |-> ReplacesRejection(rp), state |-> TERMINATED]>>
    /\ (hdr = [name |-> "Replaces", value |-> "remote"]
           /\ \A i \in 1..Len(calls) : calls[i].op # "blind") =>
          /\ response \in {0, 404}
          /\ reqPc = "blind_call" \/ response = 404
          /\ calls = <<[op |-> "exists", thread |-> "req"]>>

\* A monitored request with a Replaces dialog that has no session got its 603 as
\* the terminated NOTIFY.
C13_Witness ==
    /\ hdr = [name |-> "Replaces", value |-> "local_nosession"]
    /\ progress
    /\ reqPc = "done"
    /\ sent = <<[response |-> 100, state |-> ACTIVE],
                [response |-> 603, state |-> TERMINATED]>>

\* The request had no Replaces parameter and the dialplan lookup of its target
\* found nothing.
BlindTargetMissing ==
    /\ hdr = [name |-> "Replaces", value |-> "none"]
    /\ Len(calls) = 1
    /\ reqPc # "blind_call"

\* C14: when a request without Replaces names a destination that does not exist,
\* the lookup was made in the TRANSFER_CONTEXT context if that variable is set
\* and in the endpoint's context otherwise, the outcome is 404, the bridging
\* core is never called and the session's termination is not deferred; without
\* a monitor 404 is the final response, with one it is carried by the only
\* terminated NOTIFY (which is sent when nothing fails and the remote side has
\* not terminated the subscription).
C14_MissingTargetNotFound ==
    BlindTargetMissing =>
       /\ transfer_context \in TransferContextValues
       /\ context = IF transfer_context = "" THEN "endpoint" ELSE transfer_context
       /\ response = 404
       /\ calls = <<[op |-> "exists", thread |-> "req"]>>
       /\ transfer_result = "none"
       /\ ~defer_terminate
       /\ framehook = "unattached"
       /\ tgtPc = "idle"
       /\ (~progress /\ reqPc \in {"ret", "done"}) =>
             responses = <<404>> /\ sent = <<>>
       /\ progress =>
             /\ responses = <<>>
             /\ Cardinality(TermSent) <= 1
             /\ \A i \in TermSent : i = Len(sent) /\ sent[i].response = 404
       /\ (progress /\ reqPc = "done" /\ faults = MaxFaults /\ cbPc = "idle") =>
             sent = <<[response |-> 100, state |-> ACTIVE],
                      [response |-> 404, state |-> TERMINATED]>>

\* A monitored request looked up in the TRANSFER_CONTEXT context got its 404 as
\* the terminated NOTIFY.
C14_Witness ==
    /\ BlindTargetMissing
    /\ transfer_context = "override"
    /\ reqPc = "done"
    /\ sent = <<[response |-> 100, state |-> ACTIVE],
                [response |-> 404, state |-> TERMINATED]>>

\* The mapping of bridging results the spec gives.
MappedCode(result) ==
    IF result = "INVALID" THEN 400
    ELSE IF result = "NOT_PERMITTED" THEN 403
    ELSE IF result = "FAIL" THEN 500
    ELSE 200

\* C15: once the bridging core has returned, termination of the transferring
\* session is deferred exactly if the result is success; the blind executor's
\* response, and the code of the notification the attended executor makes, are
\* 400 for invalid, 403 for not permitted, 500 for failed and 200 for success.
C15_ResultMapping ==
    transfer_result # "none" =>
       /\ defer_terminate = (transfer_result = "SUCCESS")
       /\ (\E i \in 1..Len(calls) : calls[i].op = "blind") =>
             response = MappedCode(transfer_result)
       /\ (tgtPc = "run" /\ npc["tgt"] # "idle") =>
             notification["tgt"] =
                [response |-> MappedCode(transfer_result), state |-> TERMINATED]

\* The attended executor is notifying 403 for a transfer that was not permitted.
C15_Witness ==
    /\ transfer_result = "NOT_PERMITTED"
    /\ tgtPc = "run"
    /\ notification["tgt"] = [response |-> 403, state |-> TERMINATED]
    /\ ~defer_terminate

\* A monitored request whose Replaces dialog is ours and whose refer_attended task
\* the other session's serializer accepted.
MonitoredAttended ==
    /\ hdr = [name |-> "Replaces", value |-> "local"]
    /\ progress
    /\ response = 200

\* C16: for a monitored attended transfer whose task was accepted, the only call
\* of refer_progress_notify is the executor's, with state terminated and the
\* code mapped from the bridging result, made after termination was deferred
\* when the result is success; the handler never notifies, nothing is queued on
\* the monitor's serializer, at most one terminated NOTIFY is sent and it is
\* the last (sent as <<100, code>> when nothing fails and the remote side has
\* not terminated the subscription).
C16_AttendedOneTerminalFromExecutor ==
    MonitoredAttended =>
       /\ npc["req"] = "idle" /\ notification["req"] = NoNotification
       /\ npc["ser"] = "idle"
       /\ \A i \in 1..Len(serializer) : serializer[i].kind # "notify"
       /\ responses = <<>>
       /\ npc["tgt"] # "idle" =>
             /\ tgtPc = "run"
             /\ notification["tgt"] =
                   [response |-> MappedCode(transfer_result), state |-> TERMINATED]
       /\ Cardinality(TermSent) <= 1
       /\ \A i \in TermSent :
             /\ i = Len(sent)
             /\ sent[i].response = MappedCode(transfer_result)
             /\ sent[i].response = 200 => defer_terminate
       /\ tgtPc \in {"idle", "queued"} => TermSent = {} /\ transfer_result = "none"
       /\ (tgtPc = "done" /\ faults = MaxFaults /\ cbPc = "idle") =>
             sent = <<[response |-> 100, state |-> ACTIVE],
                      [response |-> MappedCode(transfer_result), state |-> TERMINATED]>>

\* The executor's 200 went out as the terminated NOTIFY of a successful attended
\* transfer.
C16_Witness ==
    /\ MonitoredAttended
    /\ tgtPc = "done"
    /\ transfer_result = "SUCCESS"
    /\ defer_terminate
    /\ sent = <<[response |-> 100, state |-> ACTIVE],
                [response |-> 200, state |-> TERMINATED]>>

\* The blind transfer's callback has run for a monitored request and could not
\* attach the hook.
AttachFailed ==
    /\ progress
    /\ hdr.name = "Referred-By"
    /\ framehook = "unattached"

\* C19: when the callback cannot attach the hook it calls refer_progress_notify
\* with 200 terminated before it returns (sent as <<100, 200>> by then when
\* nothing fails and the remote side has not terminated), the hook's reference is
\* held until that call is over and released once (never below zero, zero from
\* then on), and the hook, never attached, queues nothing on the serializer.
C19_AttachFailureNotifiesSuccess ==
    /\ held["hook"] \in {0, 1}
    /\ AttachFailed =>
          /\ reqPc = "blind_cb_end" =>
                /\ held["hook"] = 1
                /\ npc["req"] # "idle" =>
                      notification["req"] = [response |-> 200, state |-> TERMINATED]
                /\ \A i \in TermSent : sent[i].response = 200
                /\ (npc["req"] = "idle" /\ faults = MaxFaults /\ cbPc = "idle") =>
                      sent = <<[response |-> 100, state |-> ACTIVE],
                               [response |-> 200, state |-> TERMINATED]>>
          /\ reqPc # "blind_cb_end" => held["hook"] = 0
          /\ \A i \in 1..Len(serializer) : serializer[i].kind # "notify"
          /\ npc["ser"] = "idle"
          /\ nframes = 0

\* The callback has returned after a failed attach: 200 terminated is out and
\* the hook's reference is gone.
C19_Witness ==
    /\ AttachFailed
    /\ reqPc = "blind_ret_leg"
    /\ held["hook"] = 0
    /\ sent = <<[response |-> 100, state |-> ACTIVE],
                [response |-> 200, state |-> TERMINATED]>>

\* The hook has just been invoked with a frame that matters to it.
HookInvoked == nframes' = nframes + 1

\* C20: a hook invocation whose frame gives a terminated notification (486 for
\* BUSY) detaches the hook in that invocation, and when the serializer takes the
\* task the notification is queued; a detached hook is not invoked again.
C20_TerminalDetachesHook ==
    [][/\ HookInvoked =>
            LET n == FrameNotification(frame', subclass) IN
            /\ framehook = "attached"
            /\ (frame'.frametype = "CONTROL" /\ frame'.sc = "BUSY") =>
                  n = [response |-> 486, state |-> TERMINATED]
            /\ n.state = TERMINATED =>
                  /\ framehook' = "detached"
                  /\ faults' = faults => serializer' = Append(serializer, NotifyTask(n))
       /\ framehook = "detached" => nframes' = nframes]_vars

\* What holds of the hook when the serializer takes the task.
C20_TerminalDetachesHookWhenPushed ==
    [][/\ HookInvoked =>
            LET n == FrameNotification(frame', subclass) IN
            /\ framehook = "attached"
            /\ (frame'.frametype = "CONTROL" /\ frame'.sc = "BUSY") =>
                  n = [response |-> 486, state |-> TERMINATED]
            /\ (n.state = TERMINATED /\ faults' = faults) =>
                  /\ framehook' = "detached"
                  /\ serializer' = Append(serializer, NotifyTask(n))
       /\ framehook = "detached" => nframes' = nframes]_vars

\* Positions of the requesting thread inside refer_incoming_invite_request.
InvitePcs == {"inv_pass", "inv_push", "inv_wait", "inv_woken", "inv_swap",
              "inv_end", "inv_done"}

\* The calls of the INVITE path, by name.
CallInviteReplaces == [op |-> "invite_replaces", thread |-> "tgt"]

CallMove == [op |-> "move", thread |-> "req"]

CallImpart == [op |-> "impart", thread |-> "req"]

CallHangup == [op |-> "hangup", thread |-> "req"]

\* The INVITE with Replaces has failed: a response code is set.
InviteFailed == reqPc \in {"inv_end", "inv_done"} /\ response # 0

\* C17: when an INVITE with Replaces fails, whatever the failure, the new call's
\* channel has not been answered, and once the handler is done the channel has
\* been hung up (once) and forgotten, termination is deferred, and the failure
\* code is the one final response (sent unless PJSIP could not build it).
C17_InviteFailureRejectedUnanswered ==
    InviteFailed =>
       /\ chan_state # "UP"
       /\ response \in {400, 481, 500}
       /\ reqPc = "inv_done" =>
             /\ ~session_channel
             /\ defer_terminate
             /\ Cardinality({i \in 1..Len(calls) : calls[i] = CallHangup}) = 1
             /\ responses \in {<<>>, <<response>>}
             /\ faults = MaxFaults => responses = <<response>>

\* What holds of a failed INVITE with Replaces: teardown and rejection as above,
\* and the new call is unanswered unless the failure is that of the swap or
\* splice.
C17_InviteFailureRejected ==
    InviteFailed =>
       /\ chan_state = "UP" <=> response = 500
       /\ response \in {400, 481, 500}
       /\ reqPc = "inv_done" =>
             /\ ~session_channel
             /\ defer_terminate
             /\ Cardinality({i \in 1..Len(calls) : calls[i] = CallHangup}) = 1
             /\ responses \in {<<>>, <<response>>}
             /\ faults = MaxFaults => responses = <<response>>

\* C18: the new call is answered only after invite_replaces, run on the other
\* session's serializer, has returned with a channel; when the handler is done
\* an unbridged old leg has seen one ast_channel_move and one hangup and no
\* ast_bridge_impart, a bridged one one ast_bridge_impart and no move (and a
\* hangup only if that failed); on the whole path there is no monitor, no
\* subscription, no 202, no NOTIFY and nothing on a monitor's serializer.
C18_InviteReplacesSwapOrSplice ==
    /\ chan_state = "UP" =>
          /\ reqPc \in {"inv_swap", "inv_end", "inv_done"}
          /\ invite.channel
          /\ calls # <<>> /\ calls[1] = CallInviteReplaces
          /\ tgtPc = "idle"
    /\ reqPc = "inv_swap" => calls = <<CallInviteReplaces>> /\ chan_state = "UP"
    /\ (reqPc = "inv_done" /\ invite.channel) =>
          IF invite.bridge
             THEN calls = IF response = 0
                             THEN <<CallInviteReplaces, CallImpart>>
                             ELSE <<CallInviteReplaces, CallImpart, CallHangup>>
             ELSE calls = <<CallInviteReplaces, CallMove, CallHangup>>
    /\ reqPc \in InvitePcs =>
          /\ ~progress /\ ~sub /\ ~accepted /\ ~mod_data
          /\ alloc = "none"
          /\ refs = 0
          /\ sent = <<>>
          /\ serializer = <<>>
          /\ \A e \in Executors : npc[e] = "idle"

\* An INVITE replaced an unbridged leg: fetched, answered, moved, one hangup, no
\* response of this handler's.
C18_Witness ==
    /\ reqPc = "inv_done"
    /\ response = 0
    /\ invite = [channel |-> TRUE, bridge |-> FALSE]
    /\ chan_state = "UP"
    /\ calls = <<CallInviteReplaces, CallMove, CallHangup>>
    /\ responses = <<>>

\* C21: when refer_progress_notify finds progress->sub NULL it returns at once:
\* no NOTIFY is sent, the association, the subscription's state and the
\* monitor's fields stay as they are, nothing else is queued or answered, and
\* exactly one reference, the notification's, is released.
C21_NullSubNoOp ==
    [][\A e \in Executors :
          (npc[e] = "check" /\ ~sub /\ npc'[e] # npc[e]) =>
             /\ npc'[e] = "idle"
             /\ sent' = sent
             /\ <<mod_data, evsub_state, dlg_lock>>' = <<mod_data, evsub_state, dlg_lock>>
             /\ <<sub, subclass, framehook>>' = <<sub, subclass, framehook>>
             /\ <<serializer, responses, accepted>>' = <<serializer, responses, accepted>>
             /\ refs' = refs - 1
             /\ held' = [held EXCEPT !["notif"] = @ - 1]]_vars

\* The hook answered, 200 terminated went out, and the 503 the hook's destructor
\* queued afterwards was dispatched on the serializer and dropped: nothing
\* failed, the queue is empty, yet no 503 was sent.
C21_Witness ==
    /\ framehook = "destroyed"
    /\ faults = MaxFaults
    /\ serializer = <<>>
    /\ npc["ser"] = "idle"
    /\ ~sub
    /\ sent = <<[response |-> 100, state |-> ACTIVE],
                [response |-> 200, state |-> TERMINATED]>>
    /\ held["notif"] = 0

\* Thread e is about to send a terminated NOTIFY (line 132).
SendingTerminal(e) == npc[e] = "send" /\ notification[e].state = TERMINATED

C22_ClearedBeforeSend ==
    [][\A e \in Executors :
          SendingTerminal(e) =>
             /\ ~sub /\ ~mod_data
             /\ npc'[e] # npc[e] =>
                   /\ npc'[e] = "idle"
                   /\ ~sub' /\ ~mod_data'
                   /\ sent' \in {sent, Append(sent, notification[e])}
                   /\ serializer' = serializer
                   /\ <<response, responses>>' = <<response, responses>>]_vars

\* C23: with a monitor the handler, once it has the code of the attended or
\* blind request, calls refer_progress_notify once with that code and state
\* terminated if the code is not 200 and not at all if it is 200; with a
\* monitor no final response is ever sent.
C23_ResolverNotifiesFailureOnly ==
    [][/\ progress => responses' = <<>>
       /\ (progress /\ reqPc = "final" /\ reqPc' # reqPc) =>
             /\ reqPc' = "ret"
             /\ sent' = sent
             /\ serializer' = serializer
             /\ IF response = 200
                   THEN /\ npc'["req"] = "idle"
                        /\ notification' = notification
                        /\ refs' = refs
                   ELSE /\ npc["req"] = "idle"
                        /\ npc'["req"] = "check"
                        /\ notification'["req"] = [response |-> response, state |-> TERMINATED]
                        /\ refs' = refs + 1
                        /\ held' = [held EXCEPT !["notif"] = @ + 1]]_vars

\* The handler has just dispatched the 404 of a monitored request.
C23_Witness ==
    /\ progress
    /\ reqPc = "ret"
    /\ response = 404
    /\ npc["req"] = "check"
    /\ notification["req"] = [response |-> 404, state |-> TERMINATED]
    /\ responses = <<>>

\* The handler has returned from a monitored request whose code is 200 without
\* a notification of its own.
C23_WitnessSuccess ==
    /\ progress
    /\ reqPc = "ret"
    /\ response = 200
    /\ npc["req"] = "idle"
    /\ responses = <<>>

\* A step of the frame hook (one that shows in the state).
HookStep == nframes' # nframes \/ frame' # frame

\* The codes and states of the control subclasses, as the specification lists
\* them; <<0, "NONE">> for a subclass without one.
ControlCode(sc) ==
    CASE sc \in {"RING", "RINGING"} -> <<180, ACTIVE>>
      [] sc = "PROGRESS" -> <<183, ACTIVE>>
      [] sc = "PROCEEDING" -> <<100, ACTIVE>>
      [] sc = "BUSY" -> <<486, TERMINATED>>
      [] sc = "CONGESTION" -> <<503, TERMINATED>>
      [] sc = "ANSWER" -> <<200, TERMINATED>>
      [] OTHER -> <<0, "NONE">>

\* C24: a written control frame has its subclass recorded and, with a subclass
\* the table knows, its notification queued on the serializer with the table's
\* code and state (unless the push is refused); any other written control frame
\* queues nothing; a frame that is not written to the leg queues nothing and
\* leaves the monitor (subclass, hook, references) as it was.
C24_ControlEventMapping ==
    [][HookStep =>
          LET f == frame'
              c == ControlCode(f.sc)
          IN /\ (f.event = "WRITE" /\ f.frametype = "CONTROL") =>
                   /\ subclass' = f.sc
                   /\ IF c[1] = 0
                         THEN /\ serializer' = serializer
                              /\ refs' = refs
                              /\ framehook' = framehook
                         ELSE faults' = faults =>
                                 /\ serializer' = Append(serializer,
                                       [kind |-> "notify", response |-> c[1], state |-> c[2]])
                                 /\ refs' = refs + 1
             /\ f.event # "WRITE" =>
                   /\ serializer' = serializer
                   /\ <<subclass, framehook, sub>>' = <<subclass, framehook, sub>>
                   /\ <<refs, held, destroyed>>' = <<refs, held, destroyed>>
             /\ sent' = sent]_vars

\* The hook has queued 183 for a PROGRESS frame and recorded the subclass.
C24_Witness ==
    /\ frame = [event |-> "WRITE", frametype |-> "CONTROL", sc |-> "PROGRESS"]
    /\ subclass = "PROGRESS"
    /\ framehook = "attached"
    /\ serializer = <<[kind |-> "notify", response |-> 183, state |-> ACTIVE]>>

\* A step of the hook handed a written control frame of the subclass recorded
\* last.
DuplicateControl ==
    /\ HookStep
    /\ frame'.event = "WRITE"
    /\ frame'.frametype = "CONTROL"
    /\ frame'.sc = subclass

\* C25 as stated: a control frame whose subclass is the one recorded last queues
\* no notification.
C25_DuplicateNotReported ==
    [][DuplicateControl => serializer' = serializer /\ refs' = refs]_vars

\* C25 as the code has it: a control frame whose subclass is the one recorded
\* last is reported like any other: with a subclass the table knows its
\* notification is queued again (unless the push is refused).
C25_DuplicateReportedAgain ==
    [][DuplicateControl =>
          LET c == ControlCode(subclass)
          IN IF c[1] = 0
                THEN serializer' = serializer
                ELSE faults' = faults =>
                        /\ serializer' = Append(serializer,
                              [kind |-> "notify", response |-> c[1], state |-> c[2]])
                        /\ refs' = refs + 1]_vars

\* Two RINGING frames in a row: 180 was sent twice.
C25_Witness ==
    /\ frame = [event |-> "WRITE", frametype |-> "CONTROL", sc |-> "RINGING"]
    /\ subclass = "RINGING"
    /\ nframes = 2
    /\ sent = <<[response |-> 100, state |-> ACTIVE],
                [response |-> 180, state |-> ACTIVE],
                [response |-> 180, state |-> ACTIVE]>>

\* A monitored attended transfer: the Replaces dialog is ours and a refer_attended
\* task was allocated.
MonitoredAttendedTask ==
    /\ progress
    /\ hdr = [name |-> "Replaces", value |-> "local"]

\* C27: the attended task holds one reference on the monitor from its
\* allocation, none once it is destroyed (its body returned, or its push
\* refused); so when every thread is done and every other holder has released,
\* the count is zero and the monitor destroyed.
C27_AttendedTaskReleasesMonitor ==
    /\ held["task"] \in {0, 1}
    /\ MonitoredAttendedTask =>
          /\ tgtPc \in {"queued", "run"} => held["task"] = 1
          /\ tgtPc = "done" => held["task"] = 0
          /\ (Quiescent /\ \A h \in Holders \ {"task"} : held[h] = 0) =>
                refs = 0 /\ destroyed

\* What the code does with the task's reference on the monitor: it is taken at
\* allocation and still held when the task is gone.
C27_AttendedTaskKeepsMonitor ==
    /\ held["task"] \in {0, 1}
    /\ MonitoredAttendedTask <=> held["task"] = 1

\* A notification has just been constructed (81-96 take its reference).
NotificationConstructed == held'["notif"] = held["notif"] + 1

\* C26 as stated: once a terminated NOTIFY has been sent for the monitor no
\* notification is constructed for it.
C26_NoNotificationAfterTerminal ==
    [][TermSent # {} => ~NotificationConstructed]_vars

\* C26 as the code has it: the hook's destructor constructs its 503 terminated
\* notification whatever the monitor's state (and queues it unless the push is
\* refused); but once a terminated NOTIFY has been sent progress->sub is NULL,
\* and a notification dispatched with progress->sub NULL is dropped unsent.
C26_LateNotificationDropped ==
    /\ [](TermSent # {} => ~sub)
    /\ [][/\ (framehook # "destroyed" /\ framehook' = "destroyed" /\ faults' = faults) =>
                /\ NotificationConstructed
                /\ serializer' = Append(serializer,
                      [kind |-> "notify", response |-> 503, state |-> TERMINATED])
          /\ \A e \in Executors :
                (npc[e] = "check" /\ ~sub /\ npc'[e] # npc[e]) =>
                   sent' = sent /\ npc'[e] = "idle"]_vars

\* The answer's 200 terminated is out and the destructor's 503 sits constructed
\* on the serializer.
C26_Witness ==
    /\ framehook = "destroyed"
    /\ sent = <<[response |-> 100, state |-> ACTIVE],
                [response |-> 200, state |-> TERMINATED]>>
    /\ ~sub
    /\ serializer = <<[kind |-> "notify", response |-> 503, state |-> TERMINATED]>>
    /\ held["notif"] = 1

\* C28: in the state callback of a remotely terminated subscription that still
\* has its monitor: while the synchronous refer_progress_terminate task is
\* awaited the callback holds the extra reference and not the dialog lock; the
\* task, run by the serializer, sets progress->sub to NULL and wakes the
\* callback; the lock is then taken again and the extra reference dropped; and
\* only then, under the lock, the association is cleared and the
\* subscription's reference released, if and only if the association is still
\* set.
C28_StateCallbackProtocol ==
    /\ [](/\ held["cb"] \in {0, 1}
          /\ cbPc = "unlock" => dlg_lock = "cb" /\ held["cb"] = 0 /\ mod_data
          /\ cbPc \in {"wait", "relock"} => dlg_lock # "cb" /\ held["cb"] = 1
          /\ cbPc = "wait" => \E i \in 1..Len(serializer) : serializer[i] = TerminateTask
          /\ cbPc = "recheck" => dlg_lock = "cb" /\ held["cb"] = 0
          /\ cbPc \in {"idle", "done"} => dlg_lock # "cb" /\ held["cb"] = 0)
    /\ [][/\ (cbPc = "unlock" /\ cbPc' # cbPc) =>
                cbPc' \in {"wait", "relock"} /\ refs' = refs + 1
          /\ (cbPc = "wait" /\ cbPc' # cbPc) =>
                /\ cbPc' = "relock"
                /\ Head(serializer) = TerminateTask
                /\ serializer' = Tail(serializer)
                /\ npc["ser"] = "idle"
                /\ ~sub'
                /\ mod_data' = mod_data /\ refs' = refs
          /\ (cbPc = "relock" /\ cbPc' # cbPc) =>
                cbPc' = "recheck" /\ refs' = refs - 1 /\ mod_data' = mod_data
          /\ (cbPc = "recheck" /\ cbPc' # cbPc) =>
                /\ cbPc' = "done"
                /\ ~mod_data'
                /\ IF mod_data
                      THEN /\ refs' = refs - 1
                           /\ held = [held' EXCEPT !["sub"] = 1]
                           /\ held'["sub"] = 0
                      ELSE refs' = refs /\ held' = held]_vars

\* The remote side terminated the subscription of a monitor that had sent only
\* its 100; the callback has run its course: handle NULL, association cleared,
\* the subscription's reference released.
C28_Witness ==
    /\ cbPc = "done"
    /\ evsub_state = TERMINATED
    /\ faults = MaxFaults
    /\ sent = <<[response |-> 100, state |-> ACTIVE]>>
    /\ \A e \in Executors : npc[e] = "idle"
    /\ ~sub /\ ~mod_data
    /\ held["sub"] = 0 /\ held["cb"] = 0
    /\ dlg_lock = "none"

\* The handler leaves refer_progress_alloc.
AllocReturns == reqPc = "alloc" /\ reqPc' # reqPc

\* C29: refer_progress_alloc makes a monitor when Refer-Sub is absent or true
\* (and nothing fails) and none when it has another value; a monitor made is
\* associated with its subscription (which holds a reference), the REFER is
\* accepted and 100 active is the first NOTIFY (sent unless it cannot be
\* built), all before the target is classified: no lookup, transfer or task has
\* been started and no other NOTIFY sent. With no failure at all the first
\* NOTIFY of a monitor is always 100 active.
C29_MonitorCreatedWithInitialNotify ==
    /\ [](/\ reqPc \in {"recv", "alloc"} =>
                ~progress /\ sent = <<>> /\ calls = <<>> /\ tgtPc = "idle"
          /\ progress <=> alloc = "ok"
          /\ alloc = "ok" => accepted
          /\ (progress /\ faults = MaxFaults) =>
                sent # <<>> /\ sent[1] = [response |-> 100, state |-> ACTIVE]
          /\ ~progress => sent = <<>> /\ ~accepted /\ ~mod_data)
    /\ [][AllocReturns =>
            /\ hdr'.name = "Refer-Sub"
            /\ hdr'.value = "false" => ~progress' /\ alloc' = "optout" /\ refs' = 0
            /\ hdr'.value \in {"absent", "true"} =>
                  \/ progress'
                  \/ faults' = faults - 1 /\ alloc' \notin {"ok", "optout"}
            /\ progress' =>
                  /\ hdr'.value \in {"absent", "true"}
                  /\ sub' /\ mod_data' /\ accepted'
                  /\ evsub_state' = ACTIVE
                  /\ held'["sub"] = 1
                  /\ reqPc' = "classify"
                  /\ calls' = <<>> /\ tgtPc' = "idle"
                  /\ sent' \in {<<>>, <<[response |-> 100, state |-> ACTIVE]>>}
                  /\ faults' = faults => sent' # <<>>]_vars

\* A monitor was made for a request with Refer-Sub: true; its 100 is out and the
\* target not yet classified.
C29_Witness ==
    /\ hdr = [name |-> "Refer-Sub", value |-> "true"]
    /\ reqPc = "classify"
    /\ progress /\ sub /\ mod_data /\ accepted
    /\ sent = <<[response |-> 100, state |-> ACTIVE]>>
    /\ calls = <<>>

\* C30: the code an INVITE with Replaces is rejected with is the status code of
\* the packet pjsip_replaces_verify_request built when verification fails, 481
\* when the dialog has no session or the task brought back no channel, 500 when
\* (and only when) the move or impart fails, and that code is the response sent;
\* an INVITE without Replaces leaves the handler with no response set or sent,
\* the session and its channel untouched and nothing called.
C30_InviteRejectionCodes ==
    /\ [](/\ verify.verdict = "none" <=> reqPc \notin InvitePcs
          /\ (reqPc \in {"inv_end", "inv_done"} /\ verify.verdict = "invalid") =>
                response = verify.code /\ response # 0 /\ calls \in {<<>>, <<CallHangup>>}
          /\ (reqPc \in {"inv_end", "inv_done"} /\ verify.verdict = "no_session") =>
                response = 481 /\ calls \in {<<>>, <<CallHangup>>}
          /\ (reqPc \in {"inv_end", "inv_done"} /\ verify.verdict = "session") =>
                IF invite.channel THEN response \in {0, 500} ELSE response = 481
          /\ verify.verdict = "absent" =>
                /\ reqPc = "inv_pass"
                /\ response = 0 /\ responses = <<>>
                /\ session_channel /\ chan_state = "DOWN" /\ ~defer_terminate
                /\ invite = NoInvite /\ calls = <<>> /\ tgtPc = "idle"
          /\ reqPc = "inv_done" =>
                /\ responses \in {<<>>, <<response>>}
                /\ response = 0 => responses = <<>>
                /\ (response # 0 /\ faults = MaxFaults) => responses = <<response>>)
    /\ [][(reqPc = "inv_swap" /\ reqPc' # reqPc) =>
             /\ response = 0
             /\ response' = IF faults' = faults THEN 0 ELSE 500]_vars

\* The dialog's session had no channel: the task failed and the INVITE was
\* rejected with 481.
C30_Witness ==
    /\ reqPc = "inv_done"
    /\ verify = [verdict |-> "session", code |-> 0]
    /\ invite = NoInvite
    /\ calls = <<CallInviteReplaces, CallHangup>>
    /\ responses = <<481>>
    /\ ~session_channel

\* Thread e sends a terminated NOTIFY in this step (the send did not fail).
TerminalSentBy(e) ==
    /\ npc[e] = "send"
    /\ notification[e].state = TERMINATED
    /\ sent' = Append(sent, notification[e])

\* C31: the state callback that a terminated NOTIFY's send runs finds the
\* association cleared: it never has a synchronous task to push. On the step of
\* the send the dialog lock is not touched, nothing is put on the serializer,
\* the association stays cleared and the only reference released is the
\* notification's, at the return of refer_progress_notify.
C31_SendCallbackNoSyncTask ==
    /\ [](cb_from_send # "sync")
    /\ [][\A e \in Executors :
             TerminalSentBy(e) =>
                /\ ~mod_data /\ ~mod_data'
                /\ cb_from_send' = "noop"
                /\ evsub_state' = TERMINATED
                /\ dlg_lock' = dlg_lock
                /\ cbPc' = cbPc
                /\ serializer' = serializer
                /\ refs' = refs - 1
                /\ held' = [held EXCEPT !["notif"] = @ - 1]]_vars

\* A terminated NOTIFY has been sent and the callback it ran did nothing.
C31_Witness ==
    /\ cb_from_send = "noop"
    /\ TermSent # {}
    /\ evsub_state = TERMINATED
    /\ ~mod_data
    /\ cbPc = "idle"

====
